---- MODULE Spec2Model ----
(***************************************************************************)
(* The airnity-render promotion step: one HTTP call to the render service, *)
(* then a staged write of the returned manifests under the output root.    *)
(*                                                                         *)
(* Two revisions of the runner are modelled side by side, selected by the  *)
(* variable rev:                                                           *)
(*   "A"  src/internal/promotion/runner/builtin/airnity_renderer.go        *)
(*        (one request, files moved one by one into the final directory)   *)
(*   "B"  src/unnamed/part_006                                             *)
(*        (one request per environment, the staged target directory        *)
(*        replaces the final one)                                          *)
(*                                                                         *)
(* A string is a sequence of one-character strings, a path is a sequence   *)
(* of segments (each a string), the filesystem is a function from the      *)
(* paths that exist to their nodes (a directory, or a regular file with    *)
(* its data).  There are no symbolic links.  The deferred removal of the   *)
(* staging directory is taken to succeed (its failure is only logged).     *)
(* Every other system call of writeManifests can fail.  In revision B all  *)
(* environments answer a well-formed 2xx request with the same items.      *)
(***************************************************************************)
EXTENDS Integers, Sequences, FiniteSets, TLC

(* ------------------------------ bounds --------------------------------- *)
\* longest resource list of a response item
MaxRes == 2
\* most items in a response
MaxItems == 2
\* longest string handed to the filename derivation (SpecFn)
MaxLen == 2
\* largest resource index handed to the filename derivation (SpecFn)
MaxIndex == 10

(* ------------------------------ strings -------------------------------- *)
\* the characters of the model in ASCII order
Ascii ==
  <<"-", ".", "/", "0", "1", "2", "3", "4", "5", "6", "7", "8", "9",
    "A", "B", "C", "D", "E", "F", "G", "H", "I", "J", "K", "L", "M",
    "N", "O", "P", "Q", "R", "S", "T", "U", "V", "W", "X", "Y", "Z",
    "_",
    "a", "b", "c", "d", "e", "f", "g", "h", "i", "j", "k", "l", "m",
    "n", "o", "p", "q", "r", "s", "t", "u", "v", "w", "x", "y", "z">>

Ord(c) == CHOOSE k \in 1..Len(Ascii) : Ascii[k] = c

\* strings.ToLower on one character: "A".."Z" are Ascii[14..39], "a".."z" Ascii[41..66]
ToLowerChar(c) ==
  IF Ord(c) >= 14 /\ Ord(c) <= 39 THEN Ascii[Ord(c) + 27] ELSE c

ToLower(s) == [k \in 1..Len(s) |-> ToLowerChar(s[k])]

Digits == <<"0", "1", "2", "3", "4", "5", "6", "7", "8", "9">>

\* fmt.Sprintf("%d", n) for n >= 0
RECURSIVE Itoa(_)
Itoa(n) ==
  IF n < 10 THEN <<Digits[n + 1]>>
  ELSE Itoa(n \div 10) \o <<Digits[(n % 10) + 1]>>

\* strings.Join(components, sep)
RECURSIVE StringsJoin(_, _)
StringsJoin(components, sep) ==
  IF components = <<>> THEN <<>>
  ELSE IF Len(components) = 1 THEN components[1]
  ELSE components[1] \o sep \o StringsJoin(Tail(components), sep)

\* lexicographic byte order on strings (the order of os.ReadDir)
RECURSIVE StrLess(_, _)
StrLess(s, t) ==
  IF t = <<>> THEN FALSE
  ELSE IF s = <<>> THEN TRUE
  ELSE IF s[1] = t[1] THEN StrLess(Tail(s), Tail(t))
  ELSE Ord(s[1]) < Ord(t[1])

(* ------------------------------- paths --------------------------------- *)
Slash == "/"
Dot == <<".">>
DotDot == <<".", ".">>

\* the segments of a string, split at every separator
RECURSIVE SplitPath(_)
SplitPath(s) ==
  IF \A k \in 1..Len(s) : s[k] # Slash THEN <<s>>
  ELSE LET i == CHOOSE k \in 1..Len(s) :
                  s[k] = Slash /\ \A m \in 1..(k - 1) : s[m] # Slash
       IN <<SubSeq(s, 1, i - 1)>> \o SplitPath(SubSeq(s, i + 1, Len(s)))

\* filepath.Clean of an absolute path: walk the segments, "" and "." are
\* dropped, ".." removes the last segment kept so far (none at the top)
RECURSIVE Resolve(_, _)
Resolve(stack, segs) ==
  IF segs = <<>> THEN stack
  ELSE LET p == Head(segs) IN
       IF p = <<>> \/ p = Dot THEN Resolve(stack, Tail(segs))
       ELSE IF p = DotDot
            THEN Resolve(IF stack = <<>> THEN <<>>
                         ELSE SubSeq(stack, 1, Len(stack) - 1), Tail(segs))
            ELSE Resolve(Append(stack, p), Tail(segs))

\* filepath.Join(dir, elem): dir is absolute and clean, the result is cleaned
\* lexically, so ".." in elem climbs out of dir
FilepathJoin(dir, elem) == Resolve(dir, SplitPath(elem))

\* securejoin.SecureJoin(root, unsafePath) without symbolic links: the unsafe
\* path is cleaned as if root were "/", then appended to root
SecureJoin(root, unsafePath) == root \o Resolve(<<>>, SplitPath(unsafePath))

IsPrefix(p, q) == Len(p) <= Len(q) /\ SubSeq(q, 1, Len(p)) = p
Parent(p) == SubSeq(p, 1, Len(p) - 1)
Ancestors(p) == {SubSeq(p, 1, k) : k \in 0..Len(p)}

(* ----------------------------- filesystem ------------------------------ *)
\* a node is a directory or a regular file holding data
DirNode == [type |-> "dir", data |-> <<>>]
FileNode(data) == [type |-> "file", data |-> data]
\* data of a file a failed copy leaves behind (created, nothing copied)
Truncated == <<>>

Exists(f, p) == p \in DOMAIN f
IsDir(f, p) == p \in DOMAIN f /\ f[p].type = "dir"
IsFile(f, p) == p \in DOMAIN f /\ f[p].type = "file"

\* os.MkdirAll: fails when a path component is a regular file
MkdirAllOk(f, p) == \A q \in Ancestors(p) : ~IsFile(f, q)
MkdirAll(f, p) ==
  [q \in (DOMAIN f) \cup Ancestors(p) |-> IF q \in DOMAIN f THEN f[q] ELSE DirNode]

\* os.RemoveAll: removes p and everything below it; no error when p is absent
RemoveAll(f, p) == [q \in {r \in DOMAIN f : ~IsPrefix(p, r)} |-> f[q]]

\* os.WriteFile: the parent must be a directory, the path not a directory
WriteFileOk(f, p) == p # <<>> /\ IsDir(f, Parent(p)) /\ ~IsDir(f, p)

\* mutant: a file that exists keeps its data
WriteFileKeepFirst(f, p, data) ==
  [q \in (DOMAIN f) \cup {p} |->
     IF q \in DOMAIN f THEN f[q] ELSE FileNode(data)]

WriteFile(f, p, data) ==
  [q \in (DOMAIN f) \cup {p} |-> IF q = p THEN FileNode(data) ELSE f[q]]

\* os.Rename: "nil", "exist" (os.IsExist holds: the destination is a
\* non-empty directory) or "other"
RenameErr(f, src, dst) ==
  IF ~Exists(f, src) \/ dst = <<>> \/ ~IsDir(f, Parent(dst)) THEN "other"
  ELSE IF src = dst THEN "nil"
  ELSE IF IsFile(f, src) THEN (IF IsDir(f, dst) THEN "other" ELSE "nil")
  ELSE IF IsPrefix(src, dst) THEN "other"
  ELSE IF IsFile(f, dst) THEN "other"
  ELSE IF \E q \in DOMAIN f : IsPrefix(dst, q) /\ q # dst THEN "exist"
  ELSE "nil"

Rename(f, src, dst) ==
  IF src = dst THEN f
  ELSE LET kept == {q \in DOMAIN f : ~IsPrefix(src, q) /\ ~IsPrefix(dst, q)}
           moved == {q \in DOMAIN f : IsPrefix(src, q)}
           target(q) == dst \o SubSeq(q, Len(src) + 1, Len(q))
       IN [r \in kept \cup {target(q) : q \in moved} |->
             IF r \in kept THEN f[r]
             ELSE f[CHOOSE q \in moved : target(q) = r]]

\* os.ReadDir: the names directly under p, sorted by name
Children(f, p) == {q \in DOMAIN f : Len(q) = Len(p) + 1 /\ IsPrefix(p, q)}

RECURSIVE SortNames(_)
SortNames(S) ==
  IF S = {} THEN <<>>
  ELSE LET m == CHOOSE x \in S : \A y \in S \ {x} : StrLess(x, y)
       IN <<m>> \o SortNames(S \ {m})

ReadDir(f, p) == SortNames({q[Len(q)] : q \in Children(f, p)})

(* --------------------------- serialization ----------------------------- *)
\* a manifest is a function from keys to scalars (a decoded JSON object, the
\* empty function standing for null); yaml.Marshal writes one line per key,
\* the keys in sorted order
YamlKeys == <<"apiVersion", "kind", "name">>

RECURSIVE YamlLines(_, _)
YamlLines(manifest, keys) ==
  IF keys = <<>> THEN <<>>
  ELSE (IF Head(keys) \in DOMAIN manifest
        THEN <<<<Head(keys), manifest[Head(keys)]>>>> ELSE <<>>)
       \o YamlLines(manifest, Tail(keys))

YamlMarshal(manifest) ==
  IF DOMAIN manifest = {} THEN <<<<"null", "">>>>
  ELSE YamlLines(manifest, YamlKeys)

(* ------------------------- filename derivation ------------------------- *)
DashSep == <<"-">>
UnderscoreSep == <<"_">>
DotSep == <<".">>
YamlExt == <<".", "y", "a", "m", "l">>
ResourcePrefix == <<"r", "e", "s", "o", "u", "r", "c", "e", "-">>

\* mutant: the position is part of every name token
generateFilenamePositional(group, version, kind, name, namespace, index) ==
  LET gvkStr == IF group # <<>>
                THEN ToLower(group) \o DotSep \o ToLower(kind)
                ELSE ToLower(kind)
      nameComponent == name \o ResourcePrefix \o Itoa(index)
      components == <<gvkStr, nameComponent>>
                    \o (IF namespace # <<>> THEN <<namespace>> ELSE <<>>)
  IN StringsJoin(components, DashSep) \o YamlExt

\* mutant: the group keeps its case
generateFilenameGroupCase(group, version, kind, name, namespace, index) ==
  LET gvkStr == IF group # <<>>
                THEN group \o DotSep \o ToLower(kind)
                ELSE ToLower(kind)
      nameComponent == IF name # <<>> THEN name ELSE ResourcePrefix \o Itoa(index)
      components == <<gvkStr, nameComponent>>
                    \o (IF namespace # <<>> THEN <<namespace>> ELSE <<>>)
  IN StringsJoin(components, DashSep) \o YamlExt

\* revision A
generateFilename(group, version, kind, name, namespace, index) ==
  LET gvkStr == IF group # <<>>
                THEN ToLower(group) \o DotSep \o ToLower(kind)
                ELSE ToLower(kind)
      nameComponent == IF name # <<>> THEN name ELSE ResourcePrefix \o Itoa(index)
      components == <<gvkStr, nameComponent>>
                    \o (IF namespace # <<>> THEN <<namespace>> ELSE <<>>)
  IN StringsJoin(components, DashSep) \o YamlExt

\* revision B
generateFilePath(group, kind, name, namespace) ==
  LET filenameParts ==
        (IF group # <<>> THEN <<ToLower(group)>> ELSE <<>>)
        \o <<ToLower(kind)>>
        \o (IF namespace # <<>> THEN <<namespace>> ELSE <<>>)
        \o (IF name # <<>> THEN <<name>> ELSE <<>>)
  IN StringsJoin(filenameParts, UnderscoreSep) \o YamlExt

\* the namespace pointer of a resource: <<>> is nil, <<s>> points to s
NamespaceOf(resource) ==
  IF resource.Namespace = <<>> THEN <<>> ELSE resource.Namespace[1]

(* ------------------------------- errors -------------------------------- *)
\* an error is the chain of its messages, outermost first, with the values
\* the messages format (status %d, resource %d, app %s, cluster %s, and the
\* directory %s of the messages of writeManifests about a directory)
NoErr ==
  [chain |-> <<>>, status |-> 0, index |-> -1, app |-> <<>>, cluster |-> <<>>,
   dir |-> <<>>]
NewErr(msg) == [NoErr EXCEPT !.chain = <<msg>>]
DirErr(msg, d) == [NewErr(msg) EXCEPT !.dir = d]
Wrap(msg, e) == [e EXCEPT !.chain = <<msg>> \o @]
ErrContains(e, msg) == \E k \in 1..Len(e.chain) : e.chain[k] = msg

\* what the history keeps of an answer: the body counts only on 2xx
Answer(status, body) ==
  [status |-> status,
   body |-> IF status >= 200 /\ status < 300 THEN body ELSE "none"]
NoAnswer == [status |-> -1, body |-> "none"]

Succeeded == "Succeeded"
Errored == "Errored"
NoResult == [status |-> "", err |-> NoErr]

(* ------------------------------- inputs -------------------------------- *)
\* the work directory of the step
WorkDir == <<<<"r">>, <<"p">>, <<"w">>>>

TempPrefix == <<"a", "i", "r", "n", "i", "t", "y", "-", "t", "e", "m", "p", "-">>
\* the name os.MkdirTemp gives the staging directory
TempName == TempPrefix \o <<"1">>
TempName2 == TempPrefix \o <<"2">>
HasTempPrefix(seg) == Len(seg) >= Len(TempPrefix) /\ SubSeq(seg, 1, Len(TempPrefix)) = TempPrefix

environments == <<"sandbox", "prod", "dev", "it">>

\* the URL of revision A, and the URL of revision B for an environment
FixedURL == <<"http://app-generator.kargo.svc.cluster.local">>
EnvURL(env) ==
  <<"https://argocd-apps-generator.admin.", env, ".airnity.private/api/v1/generate-manifests">>

OutPaths == { <<>>,
              <<".", ".", "/", ".", ".", "/", ".", ".", "/", "x">> }

\* the render endpoint the configuration names (the test server of the
\* tests) and the custom headers it supplies
ConfiguredURL == <<"http://127.0.0.1:8080">>
CustomHeaders == <<[name |-> "Authorization", value |-> "Bearer token"]>>

ValidConfigs ==
  { [valid |-> TRUE, convertible |-> TRUE, OutPath |-> o,
     Environment |-> ConfiguredURL, Headers |-> CustomHeaders,
     RepoURL |-> "https://github.com/example/repo", Commit |-> "abc123",
     Deployments |-> <<[ClusterID |-> <<"a">>, AppName |-> <<"b">>],
                       [ClusterID |-> <<"c">>, AppName |-> <<"d">>]>>,
     GitRef |-> "main", Apps |-> <<"b">>, ArgoRepoName |-> "repo"] : o \in OutPaths }

BadConfigs ==
  { [c EXCEPT !.valid = v, !.convertible = ~v] :
      c \in {d \in ValidConfigs : d.OutPath = <<>>}, v \in BOOLEAN }

\* status codes of the render service
Statuses == {199, 200, 299, 300, 500}

Res(group, kind, name, namespace, manifest) ==
  [Group |-> group, Version |-> <<"v", "1">>, Kind |-> kind, Name |-> name,
   Namespace |-> namespace, Manifest |-> manifest]

\* the resources of the responses: a plain one, one whose name token runs
\* into the namespace token of the first, one without a name, one whose
\* name has a separator
ResourceSet ==
  { Res(<<>>, <<"K">>, <<"n">>, <<<<"s">>>>, [kind |-> "K", name |-> "n"]),
    Res(<<>>, <<"K">>, <<"n", "-", "s">>, <<>>, [name |-> "n-s", apiVersion |-> "v1"]),
    Res(<<"G">>, <<"K">>, <<>>, <<>>, <<>>),
    Res(<<>>, <<"K">>, <<"d", "/", "n">>, <<>>, [name |-> "d/n"]) }

Targets ==
  { <<<<"a">>, <<"b">>>>, <<<<"a">>, <<>>>>, <<<<>>, <<>>>>, <<<<>>, <<"b">>>>,
    <<DotDot, <<"b">>>>, <<DotDot, DotDot>> }

SeqsUpTo(S, n) == UNION {[1..k -> S] : k \in 0..n}
\* the sequences that name no element twice
DistinctSeqsUpTo(S, n) ==
  {s \in SeqsUpTo(S, n) : \A a, b \in 1..Len(s) : a # b => s[a] # s[b]}

Item(t, resources) == [ClusterID |-> t[1], AppName |-> t[2], Resources |-> resources]

\* the targets of the responses with several items: a plain one, and two
\* whose directories run into each other
SmallTargets == { <<<<"a">>, <<"b">>>>, <<<<>>, <<"b">>>>, <<DotDot, <<"b">>>> }

\* items with any list of different resources, and items with at most one
\* plain resource
FullItems ==
  {Item(t, rs) : t \in Targets, rs \in DistinctSeqsUpTo(ResourceSet, MaxRes)}
SmallItems ==
  {Item(t, rs) : t \in SmallTargets,
                 rs \in SeqsUpTo({r \in ResourceSet : r.Name = <<"n">>}, 1)}

\* a response with resources without a name: two of one type and namespace
\* (with different manifests) in the first target, one at position 0 of the
\* second
IndexedResponse ==
  << Item(<<<<"a">>, <<"b">>>>,
          << Res(<<>>, <<"K">>, <<>>, <<<<"s">>>>, [kind |-> "K"]),
             Res(<<>>, <<"K">>, <<>>, <<<<"s">>>>, [kind |-> "K", apiVersion |-> "v1"]) >>),
     Item(<<<<"c">>, <<"d">>>>,
          << Res(<<"G">>, <<"K">>, <<>>, <<>>, [apiVersion |-> "G/v1"]) >>) >>

\* the decoded bodies of the render service: one item with any resource
\* list, or up to MaxItems small items, or the response above
Responses ==
  {<<it>> : it \in FullItems} \cup SeqsUpTo(SmallItems, MaxItems) \cup {IndexedResponse}

\* the tree before the step: only the work directory, or (when the output
\* root is the work directory) an output root that holds an earlier rendering
FreshTree == [q \in Ancestors(WorkDir) |-> DirNode]
OldData == <<<<"name", "old">>>>
OldTree(out) ==
  LET a == out \o <<<<"a">>>>
      files == { a \o <<<<"b">>, <<"k", "-", "n", "-", "s", ".", "y", "a", "m", "l">>>>,
                 a \o <<<<"b">>, <<"o", "l", "d", ".", "y", "a", "m", "l">>>>,
                 out \o <<<<"c">>, <<"d">>, <<"k", "e", "e", "p">>>> }
      dirs == UNION {Ancestors(Parent(q)) : q \in files} \cup Ancestors(WorkDir)
  IN [q \in dirs \cup files |-> IF q \in files THEN FileNode(OldData) ELSE DirNode]

Trees(outPath) ==
  IF outPath = <<>> THEN {FreshTree, OldTree(WorkDir)} ELSE {FreshTree}

(* ------------------------------- state --------------------------------- *)
VARIABLES
  rev,        \* the revision that runs
  cfg,        \* the step configuration
  render,     \* the items a well-formed 2xx body decodes to
  fs,         \* the filesystem
  pc,         \* position of the step
  env,        \* revision B: index of the environment being rendered
  request,    \* requestPayload
  resp,       \* responseItems
  outDir,     \* the output root handed to writeManifests
  tempDir,    \* the staging directory, <<>> before os.MkdirTemp
  i,          \* index of the current item (1-based)
  j,          \* index of the current resource (0-based, as in the code)
  entries,    \* revision A: file names still to move for the current item
  wmErr,      \* the error writeManifests is about to return
  result,     \* what Run returned: status and error
  fs0,        \* history: the filesystem when Run was called
  fsCall,     \* history: the filesystem when writeManifests was last called
  touched,    \* history: paths created, written, replaced or removed
  httpCalls,  \* history: the requests handed to client.Do, in order
  answer,     \* history: status and body of the last answer
  parsed,     \* history: number of response bodies handed to json.Unmarshal
  published,  \* history: a publish step of the current writeManifests has run
  lastMove,   \* history: the last move of a publish step
  fnIn,       \* SpecFn: the arguments of the filename derivation
  fnOut,      \* SpecFn: its results
  fsOnce,     \* SpecTwice: the tree the first of two calls left, in a sequence
  ioFailed,   \* history: an I/O step has failed and no error was returned
  other       \* SpecConc: the invocation of writeManifests that is not at a step

vars == <<rev, cfg, render, fs, pc, env, request, resp, outDir, tempDir, i, j,
          entries, wmErr, result, fs0, fsCall, touched, httpCalls, answer, parsed,
          published, lastMove, fnIn, fnOut, fsOnce, ioFailed, other>>

inputVars == <<rev, cfg, render, fs0>>
fnVars == <<fnIn, fnOut, fsOnce, ioFailed, other>>

\* what the history keeps of a move: whether only its first os.Rename was
\* made to fail, whether the move returned an error, and whether the
\* destination then holds what the source held
NoMove == [renameFailed |-> FALSE, failed |-> FALSE, placed |-> FALSE]

\* no second invocation
NoOther == [id |-> 0, pc |-> "none", resp |-> <<>>, tempDir |-> <<>>, i |-> 0, j |-> 0,
            entries |-> <<>>, wmErr |-> NoErr]

NoFn == [group |-> <<>>, kind |-> <<>>, name |-> <<>>, namespace |-> <<>>, index |-> 0]

\* the failures a system call may be made to have: any of S, and none where
\* two invocations run side by side with no I/O step failing
Faults(S) == IF other.id = 0 THEN S ELSE {"none"}

Init ==
  /\ rev \in {"A", "B"}
  /\ cfg \in ValidConfigs \cup BadConfigs
  /\ render \in Responses
  /\ fs0 \in Trees(cfg.OutPath)
  /\ (cfg \in BadConfigs => render = <<>> /\ fs0 = FreshTree)
  /\ fs = fs0
  /\ pc = "Run"
  /\ env = 0
  /\ request = <<>>
  /\ resp = <<>>
  /\ outDir = <<>>
  /\ tempDir = <<>>
  /\ i = 0
  /\ j = 0
  /\ entries = <<>>
  /\ wmErr = NoErr
  /\ result = NoResult
  /\ fsCall = fs0
  /\ touched = {}
  /\ httpCalls = <<>>
  /\ answer = NoAnswer
  /\ parsed = 0
  /\ published = FALSE
  /\ lastMove = NoMove
  /\ fsOnce = <<>>
  /\ ioFailed = FALSE
  /\ other = NoOther
  /\ fnIn = NoFn
  /\ fnOut = <<>>

\* the paths whose node differs between two filesystems
Changed(f, g) ==
  {q \in (DOMAIN f) \cup (DOMAIN g) :
     q \notin DOMAIN f \/ q \notin DOMAIN g \/ f[q] # g[q]}

(* ------------------------------ Run, run -------------------------------- *)
Return(status, err) ==
  /\ result' = [status |-> status, err |-> err]
  /\ pc' = "done"

\* mutant: the result of validate is not looked at
RunWithoutValidation ==
  /\ pc = "Run"
  /\ IF ~cfg.convertible
     THEN Return(Errored,
                 Wrap("could not convert config into airnity-renderer config",
                      NewErr("conversion")))
     ELSE pc' = "run" /\ UNCHANGED result
  /\ UNCHANGED <<inputVars, fs, env, request, resp, outDir, tempDir, i, j, entries,
                 wmErr, fsCall, touched, httpCalls, answer, parsed, published, lastMove, fnVars>>

\* Run: validate, convert, then run
Run ==
  /\ pc = "Run"
  /\ IF ~cfg.valid
     THEN Return(Errored, NewErr("invalid configuration"))
     ELSE IF ~cfg.convertible
     THEN Return(Errored,
                 Wrap("could not convert config into airnity-renderer config",
                      NewErr("conversion")))
     ELSE pc' = "run" /\ UNCHANGED result
  /\ UNCHANGED <<inputVars, fs, env, request, resp, outDir, tempDir, i, j, entries,
                 wmErr, fsCall, touched, httpCalls, answer, parsed, published, lastMove, fnVars>>

\* mutant: the deployments are listed in reverse order
RequestPayloadReversed ==
  IF rev = "A"
  THEN [RepoURL |-> cfg.RepoURL, Commit |-> cfg.Commit,
        Deployments |-> [k \in 1..Len(cfg.Deployments) |->
                           [ClusterID |-> cfg.Deployments[Len(cfg.Deployments) + 1 - k].ClusterID,
                            AppName |-> cfg.Deployments[Len(cfg.Deployments) + 1 - k].AppName]]]
  ELSE [GitRef |-> cfg.GitRef, Apps |-> cfg.Apps, RepositoryName |-> cfg.ArgoRepoName]

\* requestPayload of each revision
RequestPayload ==
  IF rev = "A"
  THEN [RepoURL |-> cfg.RepoURL, Commit |-> cfg.Commit,
        Deployments |-> [k \in 1..Len(cfg.Deployments) |->
                           [ClusterID |-> cfg.Deployments[k].ClusterID,
                            AppName |-> cfg.Deployments[k].AppName]]]
  ELSE [GitRef |-> cfg.GitRef, Apps |-> cfg.Apps, RepositoryName |-> cfg.ArgoRepoName]

\* run: prepare the request payload (revision B then enters its loop over
\* the environments)
BuildRequest ==
  /\ pc = "run"
  /\ request' = RequestPayload
  /\ env' = IF rev = "B" THEN 1 ELSE 0
  /\ pc' = "http"
  /\ UNCHANGED <<inputVars, fs, resp, outDir, tempDir, i, j, entries, wmErr, result,
                 fsCall, touched, httpCalls, answer, parsed, published, lastMove, fnVars>>

RequestURL == IF rev = "A" THEN FixedURL ELSE EnvURL(environments[env])

\* makeHTTPRequest: the headers set on the request
ContentTypeJSON == "application/json"
RequestHeaders ==
  <<[name |-> "Content-Type", value |-> ContentTypeJSON],
    [name |-> "Accept", value |-> ContentTypeJSON]>>

\* makeHTTPRequest: the request handed to client.Do
NewRequest ==
  [method |-> "POST", url |-> RequestURL, headers |-> RequestHeaders, body |-> request]

\* io.LimitRead(resp.Body, airnityMaxResponseBytes): "nil", or "exceeded"
\* for a body longer than the cap
LimitRead(body) == IF body = "toolarge" THEN "exceeded" ELSE "nil"

\* mutant: the error of io.LimitRead is dropped and the cut body is parsed
HTTPErrorReadDropped(status, body) ==
  IF status = 0 THEN Wrap("error sending HTTP request", NewErr("transport"))
  ELSE IF status < 200 \/ status >= 300
  THEN [NewErr("airnity server returned status") EXCEPT !.status = status]
  ELSE IF body = "malformed" \/ LimitRead(body) # "nil"
  THEN Wrap("error unmarshaling response", NewErr("json"))
  ELSE NoErr

\* mutant: the error of json.Unmarshal is dropped
HTTPErrorUnmarshalDropped(status, body) ==
  IF status = 0 THEN Wrap("error sending HTTP request", NewErr("transport"))
  ELSE IF status < 200 \/ status >= 300
  THEN [NewErr("airnity server returned status") EXCEPT !.status = status]
  ELSE IF LimitRead(body) # "nil"
  THEN Wrap("error reading response body", NewErr("limit exceeded"))
  ELSE NoErr

\* mutant: the error of client.Do is dropped
HTTPErrorTransportDropped(status, body) ==
  IF status = 0 THEN NoErr
  ELSE IF status < 200 \/ status >= 300
  THEN [NewErr("airnity server returned status") EXCEPT !.status = status]
  ELSE IF LimitRead(body) # "nil"
  THEN Wrap("error reading response body", NewErr("limit exceeded"))
  ELSE IF body = "malformed"
  THEN Wrap("error unmarshaling response", NewErr("json"))
  ELSE NoErr

\* the error of makeHTTPRequest for a status code and a body, NoErr when the
\* body decodes; status 0 stands for a failed client.Do (unreachable host,
\* timeout, cancelled context)
HTTPError(status, body) ==
  IF status = 0 THEN Wrap("error sending HTTP request", NewErr("transport"))
  ELSE IF status < 200 \/ status >= 300
  THEN [NewErr("airnity server returned status") EXCEPT !.status = status]
  ELSE IF LimitRead(body) # "nil"
  THEN Wrap("error reading response body", NewErr("limit exceeded"))
  ELSE IF body = "malformed"
  THEN Wrap("error unmarshaling response", NewErr("json"))
  ELSE NoErr

\* whether makeHTTPRequest reaches json.Unmarshal
ReachesUnmarshal(status, body) ==
  status >= 200 /\ status < 300 /\ LimitRead(body) = "nil"

\* run: makeHTTPRequest and the handling of its error
MakeHTTPRequest ==
  /\ pc = "http"
  /\ \E status \in Statuses \cup {0}, body \in {"ok", "malformed", "toolarge"} :
       LET err == HTTPError(status, body) IN
       /\ httpCalls' = Append(httpCalls, NewRequest)
       /\ answer' = Answer(status, body)
       /\ parsed' = IF ReachesUnmarshal(status, body) THEN parsed + 1 ELSE parsed
       /\ IF err # NoErr
          THEN /\ Return(Errored, Wrap("error making HTTP request to airnity server", err))
               /\ UNCHANGED resp
          ELSE /\ resp' = render
               /\ pc' = "outdir"
               /\ UNCHANGED result
  /\ UNCHANGED <<inputVars, fs, env, request, outDir, tempDir, i, j, entries, wmErr,
                 fsCall, touched, published, lastMove, fnVars>>

\* run: determine the output directory and call writeManifests; the join
\* can fail (Lstat error other than not-exist)
OutDirOf(workDir, outPath) ==
  IF outPath # <<>> THEN SecureJoin(workDir, outPath) ELSE workDir

DetermineOutDir ==
  /\ pc = "outdir"
  /\ \E fault \in Faults({"none", "join"}) :
       IF fault = "join" /\ cfg.OutPath # <<>>
       THEN /\ Return(Errored, Wrap("could not secure join outPath", NewErr("lstat")))
            /\ UNCHANGED <<outDir, fsCall, published, tempDir, wmErr>>
       ELSE /\ outDir' = OutDirOf(WorkDir, cfg.OutPath)
            /\ fsCall' = fs
            /\ published' = FALSE
            /\ tempDir' = <<>>
            /\ wmErr' = NoErr
            /\ pc' = "wm_base"
            /\ UNCHANGED result
  /\ UNCHANGED <<inputVars, fs, env, request, resp, i, j, entries, touched,
                 httpCalls, answer, parsed, lastMove, fnVars>>

(* --------------------------- writeManifests ---------------------------- *)
TempAppDir(item) == FilepathJoin(FilepathJoin(tempDir, item.ClusterID), item.AppName)
FinalClusterDir(item) == FilepathJoin(outDir, item.ClusterID)
FinalAppDir(item) == FilepathJoin(FinalClusterDir(item), item.AppName)

\* where the loops go next: [pc, i, j]
At(p, a, b) == [pc |-> p, i |-> a, j |-> b]
PublishStart == At("pub_dir", 1, 0)
StageStart == IF Len(resp) >= 1 THEN At("stage_dir", 1, 0) ELSE At("cleanup", 0, 0)
\* after resource b of item a has been staged (b = -1: after its directory)
StageNext(a, b) ==
  IF b + 1 < Len(resp[a].Resources) THEN At("stage_res", a, b + 1)
  ELSE IF a < Len(resp) THEN At("stage_dir", a + 1, 0)
  ELSE PublishStart
\* mutant: the publish loop stays at item a
PublishNextSame(a) == At("pub_dir", a, 0)

\* after item a has been published
PublishNext(a) ==
  IF a < Len(resp) THEN At("pub_dir", a + 1, 0) ELSE At("cleanup", 0, 0)

Goto(n) == pc' = n.pc /\ i' = n.i /\ j' = n.j

\* an error return of writeManifests once the deferred cleanup is in place
Fail(err) == wmErr' = err /\ pc' = "cleanup" /\ UNCHANGED <<i, j>>

Effect(f) == \E g \in {f} : fs' = g /\ touched' = touched \cup Changed(fs, g)

\* the name os.MkdirTemp gives the staging directory: one that is not taken
MkdirTempName(f, dir) == IF Exists(f, dir \o <<TempName>>) THEN TempName2 ELSE TempName

\* os.MkdirAll(workDir)
EnsureBaseDir ==
  /\ pc = "wm_base"
  /\ \E fault \in Faults({"none", "mkdir"}) :
       IF fault = "mkdir" \/ ~MkdirAllOk(fs, outDir)
       THEN /\ wmErr' = DirErr("error creating base directory", outDir)
            /\ pc' = "wm_ret"
            /\ UNCHANGED <<fs, touched>>
       ELSE /\ Effect(MkdirAll(fs, outDir))
            /\ pc' = "wm_temp"
            /\ UNCHANGED wmErr
  /\ UNCHANGED <<inputVars, env, request, resp, outDir, tempDir, i, j, entries, result,
                 fsCall, httpCalls, answer, parsed, published, lastMove, fnVars>>

\* os.MkdirTemp(workDir, "airnity-temp-*") and the defer of its removal
MakeTempDir ==
  /\ pc = "wm_temp"
  /\ \E fault \in Faults({"none", "mkdir"}) :
       IF fault = "mkdir"
       THEN /\ wmErr' = NewErr("error creating temporary directory")
            /\ pc' = "wm_ret"
            /\ UNCHANGED <<fs, touched, tempDir, i, j>>
       ELSE /\ tempDir' = outDir \o <<MkdirTempName(fs, outDir)>>
            /\ Effect(MkdirAll(fs, outDir \o <<MkdirTempName(fs, outDir)>>))
            /\ Goto(StageStart)
            /\ UNCHANGED wmErr
  /\ UNCHANGED <<inputVars, env, request, resp, outDir, entries, result,
                 fsCall, httpCalls, answer, parsed, published, lastMove, fnVars>>

\* staging loop: os.MkdirAll(tempAppDir) of item i
StageItemDir ==
  /\ pc = "stage_dir"
  /\ LET dir == TempAppDir(resp[i]) IN
     \E fault \in Faults({"none", "mkdir"}) :
       IF fault = "mkdir" \/ ~MkdirAllOk(fs, dir)
       THEN /\ Fail(DirErr("error creating temporary directory", dir))
            /\ UNCHANGED <<fs, touched>>
       ELSE /\ Effect(MkdirAll(fs, dir))
            /\ Goto(StageNext(i, -1))
            /\ UNCHANGED wmErr
  /\ UNCHANGED <<inputVars, env, request, resp, outDir, tempDir, entries, result,
                 fsCall, httpCalls, answer, parsed, published, lastMove, fnVars>>

\* the relative path writeResourceToFile derives for a resource
RelativePath(resource, index) ==
  IF rev = "A"
  THEN generateFilename(resource.Group, resource.Version, resource.Kind,
                        resource.Name, NamespaceOf(resource), index)
  ELSE generateFilePath(resource.Group, resource.Kind, resource.Name,
                        NamespaceOf(resource))

\* mutant: the derived path is joined with filepath.Join
ResourceFilePathJoined(appDir, resource, index) ==
  FilepathJoin(appDir, RelativePath(resource, index))

\* where writeResourceToFile writes a resource
ResourceFilePath(appDir, resource, index) ==
  SecureJoin(appDir, RelativePath(resource, index))

\* writeResourceToFile once filePath is derived: [err, fs] for a fault
WriteResourceAt(f, filePath, resource, fault) ==
  LET dir == Parent(filePath)
      f1 == IF rev = "B" THEN MkdirAll(f, dir) ELSE f
  IN IF fault = "join"
     THEN [err |-> NewErr("error joining path"), fs |-> f]
     ELSE IF rev = "B" /\ (fault = "mkdir" \/ ~MkdirAllOk(f, dir))
     THEN [err |-> NewErr("error creating directories"), fs |-> f]
     ELSE IF fault = "marshal"
     THEN [err |-> NewErr("error marshaling resource to YAML"), fs |-> f1]
     ELSE IF fault = "write" \/ ~WriteFileOk(f1, filePath)
     THEN [err |-> NewErr("error writing file"), fs |-> f1]
     ELSE [err |-> NoErr,
           fs |-> WriteFile(f1, filePath, YamlMarshal(resource.Manifest))]

\* writeResourceToFile: [err, fs] for a fault; filePath is derived once
WriteResourceToFile(f, appDir, resource, index, fault) ==
  CHOOSE w \in {WriteResourceAt(f, filePath, resource, fault) :
                  filePath \in {ResourceFilePath(appDir, resource, index)}} : TRUE

\* mutant: the error counts the resources from 1
StageResourceFromOne ==
  /\ pc = "stage_res"
  /\ LET item == resp[i]
         r == item.Resources[j + 1] IN
     \E fault \in Faults({"none", "join", "mkdir", "marshal", "write"}) :
       \E w \in {WriteResourceToFile(fs, TempAppDir(item), r, j, fault)} :
       /\ Effect(w.fs)
       /\ IF w.err # NoErr
          THEN Fail([Wrap("error writing resource", w.err)
                       EXCEPT !.index = j + 1, !.app = item.AppName,
                              !.cluster = item.ClusterID])
          ELSE Goto(StageNext(i, j)) /\ UNCHANGED wmErr
  /\ UNCHANGED <<inputVars, env, request, resp, outDir, tempDir, entries, result,
                 fsCall, httpCalls, answer, parsed, published, lastMove, fnVars>>

\* staging loop: writeResourceToFile for resource j of item i
StageResource ==
  /\ pc = "stage_res"
  /\ LET item == resp[i]
         r == item.Resources[j + 1] IN
     \E fault \in Faults({"none", "join", "mkdir", "marshal", "write"}) :
       \E w \in {WriteResourceToFile(fs, TempAppDir(item), r, j, fault)} :
       /\ Effect(w.fs)
       /\ IF w.err # NoErr
          THEN Fail([Wrap("error writing resource", w.err)
                       EXCEPT !.index = j, !.app = item.AppName,
                              !.cluster = item.ClusterID])
          ELSE Goto(StageNext(i, j)) /\ UNCHANGED wmErr
  /\ UNCHANGED <<inputVars, env, request, resp, outDir, tempDir, entries, result,
                 fsCall, httpCalls, answer, parsed, published, lastMove, fnVars>>

\* publish loop: os.MkdirAll of the final app directory (revision A) or of
\* the final cluster directory (revision B)
EnsureFinalDir ==
  /\ pc = "pub_dir"
  /\ published' = TRUE
  /\ LET dir == IF rev = "A" THEN FinalAppDir(resp[i]) ELSE FinalClusterDir(resp[i]) IN
     \E fault \in Faults({"none", "mkdir"}) :
       IF fault = "mkdir" \/ ~MkdirAllOk(fs, dir)
       THEN /\ Fail(DirErr(IF rev = "A" THEN "error creating final directory"
                           ELSE "error creating final cluster directory", dir))
            /\ UNCHANGED <<fs, touched>>
       ELSE /\ Effect(MkdirAll(fs, dir))
            /\ pc' = IF rev = "A" THEN "pub_read" ELSE "pub_stat"
            /\ UNCHANGED <<i, j, wmErr>>
  /\ UNCHANGED <<inputVars, env, request, resp, outDir, tempDir, entries, result,
                 fsCall, httpCalls, answer, parsed, lastMove, fnVars>>

WithTarget(err, item) == [err EXCEPT !.app = item.AppName, !.cluster = item.ClusterID]

\* revision B: os.Stat(finalAppDir) and os.RemoveAll when it exists
RemoveExistingAppDir ==
  /\ pc = "pub_stat"
  /\ rev = "B"
  /\ LET dir == FinalAppDir(resp[i]) IN
     \E fault \in Faults({"none", "remove"}) :
       IF Exists(fs, dir) /\ fault = "remove"
       THEN /\ Fail(DirErr("error removing existing app directory", dir))
            /\ UNCHANGED <<fs, touched>>
       ELSE /\ Effect(IF Exists(fs, dir) THEN RemoveAll(fs, dir) ELSE fs)
            /\ pc' = "pub_move"
            /\ UNCHANGED <<i, j, wmErr>>
  /\ UNCHANGED <<inputVars, env, request, resp, outDir, tempDir, entries, result,
                 fsCall, httpCalls, answer, parsed, published, lastMove, fnVars>>

\* what lies at and below a path, by relative path
Subtree(f, d) ==
  {<<SubSeq(q, Len(d) + 1, Len(q)), f[q]>> : q \in {r \in DOMAIN f : IsPrefix(d, r)}}

\* the history record of a move of src to dst that ran on f with a fault
\* and gave m = [err, fs]; renameFailed: the rename failed for the volume
\* boundary alone, source and destination being in order
MoveRecord(f, src, dst, fault, m) ==
  [renameFailed |-> fault = "rename" /\ RenameErr(f, src, dst) = "nil",
   failed |-> m.err # NoErr,
   placed |-> Exists(f, src) /\ Subtree(m.fs, dst) = Subtree(f, src)]

\* revision B: simpleAtomicMove, [err, fs] for a fault
simpleAtomicMove(f, src, dst, fault) ==
  LET e1 == IF fault = "rename" THEN "other" ELSE RenameErr(f, src, dst)
      f1 == RemoveAll(f, dst)
      e2 == IF fault = "rename2" THEN "other" ELSE RenameErr(f1, src, dst)
  IN IF e1 = "nil" THEN [err |-> NoErr, fs |-> Rename(f, src, dst)]
     ELSE IF e1 # "exist" THEN [err |-> NewErr("failed to move"), fs |-> f]
     ELSE IF fault = "remove"
     THEN [err |-> NewErr("failed to remove existing destination"), fs |-> f]
     ELSE IF e2 # "nil"
     THEN [err |-> NewErr("failed to move after removing existing"), fs |-> f1]
     ELSE [err |-> NoErr, fs |-> Rename(f1, src, dst)]

\* revision B: move the staged app directory into place
MoveAppDir ==
  /\ pc = "pub_move"
  /\ rev = "B"
  /\ LET item == resp[i] IN
     \E fault \in Faults({"none", "rename", "remove", "rename2"}) :
       \E m \in {simpleAtomicMove(fs, TempAppDir(item), FinalAppDir(item), fault)} :
       /\ Effect(m.fs)
       /\ lastMove' = MoveRecord(fs, TempAppDir(item), FinalAppDir(item), fault, m)
       /\ IF m.err # NoErr
          THEN Fail(WithTarget(Wrap("error moving app directory", m.err), item))
          ELSE Goto(PublishNext(i)) /\ UNCHANGED wmErr
  /\ UNCHANGED <<inputVars, env, request, resp, outDir, tempDir, entries, result,
                 fsCall, httpCalls, answer, parsed, published, fnVars>>

\* the regular files among the entries of a directory, in os.ReadDir order
FileEntries(f, dir) == SelectSeq(ReadDir(f, dir), LAMBDA n : IsFile(f, dir \o <<n>>))

\* revision A: moveManifestFiles reads the staged app directory; the loop
\* skips the entries that are directories
ReadStagedDir ==
  /\ pc = "pub_read"
  /\ rev = "A"
  /\ LET item == resp[i]
         dir == TempAppDir(item) IN
     \E fault \in Faults({"none", "readdir"}) :
       IF fault = "readdir" \/ ~IsDir(fs, dir)
       THEN /\ Fail(WithTarget(Wrap("error moving manifests",
                                    NewErr("error reading source directory")), item))
            /\ UNCHANGED entries
       ELSE /\ entries' = FileEntries(fs, dir)
            /\ IF FileEntries(fs, dir) = <<>>
               THEN Goto(PublishNext(i))
               ELSE pc' = "pub_file" /\ UNCHANGED <<i, j>>
            /\ UNCHANGED wmErr
  /\ UNCHANGED <<inputVars, fs, env, request, resp, outDir, tempDir, result,
                 fsCall, touched, httpCalls, answer, parsed, published, lastMove, fnVars>>

\* revision A: one round of the loop of moveManifestFiles, [err, fs] for a
\* fault: os.Rename, else copyFile and os.Remove of the source
MoveFile(f, srcFile, destFile, fault) ==
  LET copied == WriteFile(f, destFile, f[srcFile].data)
      removed == [q \in (DOMAIN copied) \ {srcFile} |-> copied[q]]
  IN IF fault = "none" /\ RenameErr(f, srcFile, destFile) = "nil"
     THEN [err |-> NoErr, fs |-> Rename(f, srcFile, destFile)]
     ELSE IF fault = "create" \/ ~IsFile(f, srcFile) \/ ~WriteFileOk(f, destFile)
     THEN [err |-> NewErr("error copying file"), fs |-> f]
     ELSE IF fault = "copy"
     THEN [err |-> NewErr("error copying file"),
           fs |-> WriteFile(f, destFile, Truncated)]
     ELSE IF fault = "remove"
     THEN [err |-> NoErr, fs |-> copied]
     ELSE [err |-> NoErr, fs |-> removed]

MoveManifestFile ==
  /\ pc = "pub_file"
  /\ rev = "A"
  /\ LET item == resp[i]
         name == Head(entries) IN
     \E fault \in Faults({"none", "rename", "create", "copy", "remove"}) :
       \E m \in {MoveFile(fs, TempAppDir(item) \o <<name>>,
                         FinalAppDir(item) \o <<name>>, fault)} :
       /\ Effect(m.fs)
       /\ lastMove' = MoveRecord(fs, TempAppDir(item) \o <<name>>,
                                 FinalAppDir(item) \o <<name>>, fault, m)
       /\ entries' = Tail(entries)
       /\ ioFailed' = (ioFailed \/ (fault # "none" /\ m.err = NoErr))
       /\ IF m.err # NoErr
          THEN Fail(WithTarget(Wrap("error moving manifests", m.err), item))
          ELSE /\ IF Tail(entries) = <<>> THEN Goto(PublishNext(i))
                  ELSE UNCHANGED <<pc, i, j>>
               /\ UNCHANGED wmErr
  /\ UNCHANGED <<inputVars, env, request, resp, outDir, tempDir, result,
                 fsCall, httpCalls, answer, parsed, published, fnIn, fnOut, fsOnce, other>>

\* mutant: the staging directory is removed only when no error is returned
CleanupOnSuccessOnly ==
  /\ pc = "cleanup"
  /\ Effect(IF wmErr = NoErr THEN RemoveAll(fs, tempDir) ELSE fs)
  /\ pc' = "wm_ret"
  /\ UNCHANGED <<inputVars, env, request, resp, outDir, tempDir, i, j, entries, wmErr,
                 result, fsCall, httpCalls, answer, parsed, published, lastMove, fnVars>>

\* the deferred os.RemoveAll(tempDir)
Cleanup ==
  /\ pc = "cleanup"
  /\ Effect(RemoveAll(fs, tempDir))
  /\ pc' = "wm_ret"
  /\ UNCHANGED <<inputVars, env, request, resp, outDir, tempDir, i, j, entries, wmErr,
                 result, fsCall, httpCalls, answer, parsed, published, lastMove, fnVars>>

\* mutant: the error of writeManifests is returned with status Succeeded
AfterWriteManifestsSucceeded ==
  /\ pc = "wm_ret"
  /\ IF wmErr # NoErr
     THEN Return(Succeeded, Wrap("error writing manifests", wmErr)) /\ UNCHANGED env
     ELSE IF rev = "B" /\ env < Len(environments)
     THEN env' = env + 1 /\ pc' = "http" /\ UNCHANGED result
     ELSE Return(Succeeded, NoErr) /\ UNCHANGED env
  /\ UNCHANGED <<inputVars, fs, request, resp, outDir, tempDir, i, j, entries, wmErr,
                 fsCall, touched, httpCalls, answer, parsed, published, lastMove, fnVars>>

\* run: the result of writeManifests; revision B goes on with the next
\* environment
AfterWriteManifests ==
  /\ pc = "wm_ret"
  /\ IF wmErr # NoErr
     THEN Return(Errored, Wrap("error writing manifests", wmErr)) /\ UNCHANGED env
     ELSE IF rev = "B" /\ env < Len(environments)
     THEN env' = env + 1 /\ pc' = "http" /\ UNCHANGED result
     ELSE Return(Succeeded, NoErr) /\ UNCHANGED env
  /\ UNCHANGED <<inputVars, fs, request, resp, outDir, tempDir, i, j, entries, wmErr,
                 fsCall, touched, httpCalls, answer, parsed, published, lastMove, fnVars>>

Next ==
  \/ Run
  \/ BuildRequest
  \/ MakeHTTPRequest
  \/ DetermineOutDir
  \/ EnsureBaseDir
  \/ MakeTempDir
  \/ StageItemDir
  \/ StageResource
  \/ EnsureFinalDir
  \/ RemoveExistingAppDir
  \/ MoveAppDir
  \/ ReadStagedDir
  \/ MoveManifestFile
  \/ Cleanup
  \/ AfterWriteManifests

Spec == Init /\ [][Next]_vars

(* ------------------- the filename derivation alone --------------------- *)
\* SpecFn hands the derivations of both revisions one resource and an index
FnChars == {"K", "n", "-"}
FnStrings(n) == SeqsUpTo(FnChars, n)

Apps == <<"a", "p", "p", "s">>
Deployment == <<"D", "e", "p", "l", "o", "y", "m", "e", "n", "t">>
Frontend == <<"f", "r", "o", "n", "t", "e", "n", "d">>
Default == <<"d", "e", "f", "a", "u", "l", "t">>
Namespace == <<"N", "a", "m", "e", "s", "p", "a", "c", "e">>
TestNamespace == <<"t", "e", "s", "t", "-", "n", "a", "m", "e", "s", "p", "a", "c", "e">>

FnArgs(group, kind, name, namespace, index) ==
  [resource |-> Res(group, kind, name, namespace, <<>>), index |-> index]

ExampleDeployment == FnArgs(Apps, Deployment, Frontend, <<Default>>, 0)
ExampleNamespace == FnArgs(<<>>, Namespace, TestNamespace, <<>>, 0)

FnInputs ==
  { FnArgs(g, k, n, ns, x) :
      g \in FnStrings(1), k \in FnStrings(1), n \in FnStrings(MaxLen),
      ns \in {<<>>} \cup {<<t>> : t \in FnStrings(MaxLen)}, x \in 0..MaxIndex }
  \cup {ExampleDeployment, ExampleNamespace}

InitFn ==
  /\ fnIn \in FnInputs
  /\ fnOut = <<>>
  /\ pc = "fn"
  /\ rev = "A"
  /\ cfg = CHOOSE c \in ValidConfigs : c.OutPath = <<>>
  /\ render = <<>>
  /\ fs0 = FreshTree
  /\ fs = FreshTree
  /\ env = 0
  /\ request = <<>>
  /\ resp = <<>>
  /\ outDir = <<>>
  /\ tempDir = <<>>
  /\ i = 0
  /\ j = 0
  /\ entries = <<>>
  /\ wmErr = NoErr
  /\ result = NoResult
  /\ fsCall = FreshTree
  /\ touched = {}
  /\ httpCalls = <<>>
  /\ answer = NoAnswer
  /\ parsed = 0
  /\ published = FALSE
  /\ lastMove = NoMove
  /\ fsOnce = <<>>
  /\ ioFailed = FALSE
  /\ other = NoOther

\* the call of generateFilename in writeResourceToFile (revision A) and the
\* call of generateFilePath (revision B), on the same resource
Derive ==
  /\ pc = "fn"
  /\ LET r == fnIn.resource IN
     fnOut' = <<[A |-> generateFilename(r.Group, r.Version, r.Kind, r.Name,
                                         NamespaceOf(r), fnIn.index),
                 B |-> generateFilePath(r.Group, r.Kind, r.Name, NamespaceOf(r))]>>
  /\ pc' = "fn_done"
  /\ UNCHANGED <<inputVars, fs, env, request, resp, outDir, tempDir, i, j, entries,
                 wmErr, result, fsCall, touched, httpCalls, answer, parsed, published,
                 lastMove, fnIn, fsOnce, ioFailed, other>>

NextFn == Derive

SpecFn == InitFn /\ [][NextFn]_vars

(* ---------------- the filename derivation, called twice ---------------- *)
\* SpecDet derives the path of one resource twice: at the position it has in
\* one list, then at any position of another list
DetInputs ==
  { FnArgs(g, k, n, ns, x) :
      g \in FnStrings(1), k \in FnStrings(1), n \in FnStrings(1),
      ns \in {<<>>} \cup {<<t>> : t \in FnStrings(1)}, x \in 0..MaxIndex }

InitDet ==
  /\ fnIn \in DetInputs
  /\ fnOut = <<>>
  /\ pc = "det"
  /\ rev = "A"
  /\ cfg = CHOOSE c \in ValidConfigs : c.OutPath = <<>>
  /\ render = <<>>
  /\ fs0 = FreshTree
  /\ fs = FreshTree
  /\ env = 0
  /\ request = <<>>
  /\ resp = <<>>
  /\ outDir = <<>>
  /\ tempDir = <<>>
  /\ i = 0
  /\ j = 0
  /\ entries = <<>>
  /\ wmErr = NoErr
  /\ result = NoResult
  /\ fsCall = FreshTree
  /\ touched = {}
  /\ httpCalls = <<>>
  /\ answer = NoAnswer
  /\ parsed = 0
  /\ published = FALSE
  /\ lastMove = NoMove
  /\ fsOnce = <<>>
  /\ ioFailed = FALSE
  /\ other = NoOther

\* the paths both revisions derive for the resource of fnIn at a position
DeriveAt(index) ==
  LET r == fnIn.resource IN
  [A |-> generateFilename(r.Group, r.Version, r.Kind, r.Name, NamespaceOf(r), index),
   B |-> generateFilePath(r.Group, r.Kind, r.Name, NamespaceOf(r))]

\* the call of writeResourceToFile's derivation at the resource's own position
DeriveFirst ==
  /\ pc = "det"
  /\ fnOut' = <<DeriveAt(fnIn.index)>>
  /\ pc' = "det_1"
  /\ UNCHANGED <<inputVars, fs, env, request, resp, outDir, tempDir, i, j, entries,
                 wmErr, result, fsCall, touched, httpCalls, answer, parsed, published,
                 lastMove, fnIn, fsOnce, ioFailed, other>>

\* a later call for the same identity, at position j of another list
DeriveSecond ==
  /\ pc = "det_1"
  /\ \E x \in 0..MaxIndex :
       /\ j' = x
       /\ fnOut' = Append(fnOut, DeriveAt(x))
  /\ pc' = "det_2"
  /\ UNCHANGED <<inputVars, fs, env, request, resp, outDir, tempDir, i, entries,
                 wmErr, result, fsCall, touched, httpCalls, answer, parsed, published,
                 lastMove, fnIn, fsOnce, ioFailed, other>>

NextDet == DeriveFirst \/ DeriveSecond

SpecDet == InitDet /\ [][NextDet]_vars

(* ------------------ writeResourceToFile on any strings ----------------- *)
\* SpecWr calls writeResourceToFile once, in the staging directory of the
\* first of two targets, for a resource whose strings may hold "..", "."
\* and "/"
WrStrings ==
  { <<>>, <<"n">>, <<".", ".">>, <<"/">>, <<"/", "n">>,
    <<".", ".", "/", "n">>, <<"n", "/", ".", ".">>, <<".", "/", ".", ".">>,
    <<".", ".", "/", ".", ".", "/", "n">> }

WrInputs ==
  { FnArgs(g, k, n, ns, x) :
      g \in WrStrings, k \in WrStrings, n \in WrStrings,
      ns \in {<<>>} \cup {<<t>> : t \in WrStrings \ {<<>>}}, x \in {0, 1} }

\* the staging directory with the directories of the targets a/b and c/d
WrTempDir == WorkDir \o <<TempName>>
WrTree ==
  MkdirAll(MkdirAll(FreshTree, WrTempDir \o <<<<"a">>, <<"b">>>>),
           WrTempDir \o <<<<"c">>, <<"d">>>>)

InitWr ==
  /\ rev \in {"A", "B"}
  /\ fnIn \in WrInputs
  /\ fnOut = <<>>
  /\ pc = "wr"
  /\ cfg = CHOOSE c \in ValidConfigs : c.OutPath = <<>>
  /\ render = << Item(<<<<"a">>, <<"b">>>>, <<fnIn.resource>>),
                 Item(<<<<"c">>, <<"d">>>>, <<>>) >>
  /\ resp = render
  /\ fs0 = FreshTree
  /\ fs = WrTree
  /\ fsCall = FreshTree
  /\ env = 0
  /\ request = <<>>
  /\ outDir = WorkDir
  /\ tempDir = WrTempDir
  /\ i = 1
  /\ j = fnIn.index
  /\ entries = <<>>
  /\ wmErr = NoErr
  /\ result = NoResult
  /\ touched = {}
  /\ httpCalls = <<>>
  /\ answer = NoAnswer
  /\ parsed = 0
  /\ published = FALSE
  /\ lastMove = NoMove
  /\ fsOnce = <<>>
  /\ ioFailed = FALSE
  /\ other = NoOther

\* the call of writeResourceToFile in the staging loop, with any fault
WriteStaged ==
  /\ pc = "wr"
  /\ \E fault \in {"none", "join", "mkdir", "marshal", "write"} :
       LET w == WriteResourceToFile(fs, TempAppDir(resp[i]), fnIn.resource, j, fault) IN
       /\ Effect(w.fs)
       /\ wmErr' = w.err
  /\ pc' = "wr_done"
  /\ UNCHANGED <<inputVars, env, request, resp, outDir, tempDir, i, j, entries, result,
                 fsCall, httpCalls, answer, parsed, published, lastMove, fnVars>>

NextWr == WriteStaged

SpecWr == InitWr /\ [][NextWr]_vars

(* ------------------------------ properties ----------------------------- *)

\* no path under the output root has a segment named like a staging directory
NoStagingDir(f, out) ==
  \A q \in DOMAIN f :
    IsPrefix(out, q) => \A k \in (Len(out) + 1)..Len(q) : ~HasTempPrefix(q[k])

\* the regular files under a directory, with their data
FilesUnder(f, d) ==
  {<<q, f[q].data>> : q \in {r \in DOMAIN f : IsPrefix(d, r) /\ IsFile(f, r)}}

\* the final directory of an item under the output root of the configuration
FinalDirOf(item) ==
  FilepathJoin(FilepathJoin(OutDirOf(WorkDir, cfg.OutPath), item.ClusterID),
               item.AppName)

StagingFailed ==
  /\ wmErr # NoErr
  /\ \/ ErrContains(wmErr, "error writing resource")
     \/ wmErr.chain[1] = "error creating temporary directory" /\ tempDir # <<>>

\* C2: when staging fails, writeManifests returns the error without having
\* run a publish step, and the files under the final directory of every
\* target are those of before the call, with the same data.
C2_StagingFailureLeavesTargets ==
  (pc = "wm_ret" /\ StagingFailed) =>
    /\ ~published
    /\ \A k \in 1..Len(resp) :
         FilesUnder(fs, FinalDirOf(resp[k])) = FilesUnder(fsCall, FinalDirOf(resp[k]))

\* C3: every path writeManifests creates, writes, replaces or removes lies
\* inside the output root, whatever the strings of the response.
C3_PathsInsideOutputRoot ==
  \A q \in touched : IsPrefix(OutDirOf(WorkDir, cfg.OutPath), q)

TraversalOutPath == <<".", ".", "/", ".", ".", "/", ".", ".", "/", "x">>

\* C4 (revision A): the output directory run computes is the work directory
\* or a descendant of it; the outPath "../../../x" resolves to workDir/x and
\* then no regular file outside the work directory is new or modified.
C4_OutPathContained ==
  (rev = "A" /\ outDir # <<>>) =>
    /\ IsPrefix(WorkDir, outDir)
    /\ cfg.OutPath = TraversalOutPath =>
         /\ outDir = WorkDir \o <<<<"x">>>>
         /\ \A q \in DOMAIN fs :
              (IsFile(fs, q) /\ ~IsPrefix(WorkDir, q)) =>
                (q \in DOMAIN fs0 /\ fs0[q] = fs[q])

\* C5: with a configuration that fails validation, Run returns Errored with
\* an error, and no HTTP request and no filesystem operation has happened.
C5_InvalidConfigNoIO ==
  ~cfg.valid =>
    /\ httpCalls = <<>>
    /\ touched = {}
    /\ fs = fs0
    /\ pc = "done" => (result.status = Errored /\ result.err # NoErr)

\* Run has returned for a configuration that fails validation
C5_Witness == pc = "done" /\ ~cfg.valid

\* C6: when the render service answers outside 200..299, run returns
\* Errored with an error that carries the status code, the body of that
\* answer is not parsed, and the tree is the one of before the invocation.
C6_ErrorStatusLeavesTree ==
  (/\ pc = "done"
   /\ answer.status > 0
   /\ (answer.status < 200 \/ answer.status >= 300)) =>
    /\ result.status = Errored
    /\ result.err.status = answer.status
    /\ parsed = Len(httpCalls) - 1
    /\ fs = fs0

\* C7 (revision A): a 2xx answer with a malformed body makes run return
\* Errored with "error unmarshaling response"; no staging directory has
\* been created and no file written.
C7_MalformedBody ==
  (/\ rev = "A"
   /\ pc = "done"
   /\ answer.body = "malformed") =>
    /\ result.status = Errored
    /\ ErrContains(result.err, "error unmarshaling response")
    /\ tempDir = <<>>
    /\ touched = {}
    /\ fs = fs0

\* revision A has returned after a 2xx answer with a malformed body
C7_Witness ==
  /\ rev = "A"
  /\ pc = "done"
  /\ answer.body = "malformed"
  /\ answer.status = 299

C9_FilePerResource ==
  (rev = "A" /\ pc = "done" /\ result.status = Succeeded) =>
    \A k \in 1..Len(resp) : \A m \in 1..Len(resp[k].Resources) :
      LET r == resp[k].Resources[m]
          path == SecureJoin(FinalDirOf(resp[k]),
                             generateFilename(r.Group, r.Version, r.Kind, r.Name,
                                              NamespaceOf(r), m - 1))
      IN IsFile(fs, path) /\ fs[path].data = YamlMarshal(r.Manifest)

\* the tokens of a derived filename, written out
TypeToken(r) ==
  (IF r.Group = <<>> THEN <<>> ELSE ToLower(r.Group) \o <<".">>) \o ToLower(r.Kind)
NamespaceSuffix(r) ==
  IF r.Namespace = <<>> \/ r.Namespace[1] = <<>> THEN <<>>
  ELSE <<"-">> \o r.Namespace[1]
NameToken(r, index) ==
  IF r.Name = <<>> THEN ResourcePrefix \o Itoa(index) ELSE r.Name

\* C10 as stated: the name token is the name, for every input.
C10_AsStated ==
  pc = "fn_done" =>
    fnOut[1].A = TypeToken(fnIn.resource) \o <<"-">> \o fnIn.resource.Name
                 \o NamespaceSuffix(fnIn.resource) \o YamlExt

\* C10 amended: generateFilename returns the lowercased kind, prefixed by
\* the lowercased group and "." when the group is non-empty; then "-" and
\* the name, or "resource-<index>" when the name is empty; then "-" and the
\* namespace when it is non-empty (absent counts as empty); then ".yaml".
\* The two examples of the claim come out as stated.
C10_Filename ==
  pc = "fn_done" =>
    /\ fnOut[1].A = TypeToken(fnIn.resource) \o <<"-">>
                    \o NameToken(fnIn.resource, fnIn.index)
                    \o NamespaceSuffix(fnIn.resource) \o YamlExt
    /\ fnIn = ExampleDeployment =>
         fnOut[1].A = Apps \o <<".", "d", "e", "p", "l", "o", "y", "m", "e", "n", "t", "-">>
                      \o Frontend \o <<"-">> \o Default \o YamlExt
    /\ fnIn = ExampleNamespace =>
         fnOut[1].A = <<"n", "a", "m", "e", "s", "p", "a", "c", "e", "-">>
                      \o TestNamespace \o YamlExt

\* a filename has been derived for a resource with a group in upper case, a
\* name and a namespace
C10_Witness ==
  /\ pc = "fn_done"
  /\ fnIn.resource.Group = <<"K">>
  /\ fnIn.resource.Name # <<>>
  /\ fnIn.resource.Namespace # <<>>
  /\ fnIn.resource.Namespace[1] # <<>>

\* C11 as stated: the derived path of an identity is the same at every
\* position of every list.
C11_AsStated ==
  pc = "det_2" => fnOut[1].A = fnOut[2].A

\* C11 amended: for a fixed (group, kind, name, namespace) with a non-empty
\* name the derived path is the same whatever the position, the list and the
\* earlier calls; with an empty name it is the same at the same position.
\* The path of revision B is the same in every case.
C11_Deterministic ==
  pc = "det_2" =>
    /\ (fnIn.resource.Name # <<>> \/ j = fnIn.index) => fnOut[1].A = fnOut[2].A
    /\ fnOut[1].B = fnOut[2].B

\* the path of a resource with a group, a name and a namespace has been
\* derived at two different positions
C11_Witness ==
  /\ pc = "det_2"
  /\ fnIn.resource.Group # <<>>
  /\ fnIn.resource.Name # <<>>
  /\ fnIn.resource.Namespace # <<>>
  /\ j # fnIn.index

\* the file name with the name token "resource-<index>"
FallbackName(r, index) ==
  TypeToken(r) \o <<"-">> \o ResourcePrefix \o Itoa(index)
  \o NamespaceSuffix(r) \o YamlExt

\* C12: when writeManifests is about to stage a resource with an empty name
\* that sits at zero-based position j of the list of its target, the path it
\* derives ends in <type>-resource-<j>[-<namespace>].yaml, and when the write
\* returns no error that file holds the manifest; j is the position within
\* the list of the current target.
C12_FallbackIndex ==
  (pc = "stage_res" /\ resp[i].Resources[j + 1].Name = <<>>) =>
    LET item == resp[i]
        r == item.Resources[j + 1]
        expected == TempAppDir(item) \o <<FallbackName(r, j)>>
        w == WriteResourceToFile(fs, TempAppDir(item), r, j, "none")
    IN /\ ResourceFilePath(TempAppDir(item), r, j) = expected
       /\ w.err = NoErr =>
            (IsFile(w.fs, expected) /\ w.fs[expected].data = YamlMarshal(r.Manifest))

\* the identity of a resource
Identity(r) == <<r.Group, r.Kind, r.Name, NamespaceOf(r)>>

\* C13: two resources of one target of the response whose identities
\* (group, kind, name, namespace) differ, both with a non-empty name, are
\* given different relative paths by writeResourceToFile.
C13_DistinctPaths ==
  \A k \in 1..Len(resp) : \A m, n \in 1..Len(resp[k].Resources) :
    LET r1 == resp[k].Resources[m]
        r2 == resp[k].Resources[n]
    IN (Identity(r1) # Identity(r2) /\ r1.Name # <<>> /\ r2.Name # <<>>) =>
         RelativePath(r1, m - 1) # RelativePath(r2, n - 1)

\* resource n of an item is the last one of its list that derives its path
LastOfPath(item, n) ==
  \A m \in (n + 1)..Len(item.Resources) :
    RelativePath(item.Resources[m], m - 1) # RelativePath(item.Resources[n], n - 1)

\* an earlier resource of the item derives the path of resource n
Collides(item, n) ==
  \E m \in 1..(n - 1) :
    RelativePath(item.Resources[m], m - 1) = RelativePath(item.Resources[n], n - 1)

\* C14: when a resource derives the file path of an earlier resource of its
\* target, staging it returns no error and replaces the data of the staged
\* file; and once writeManifests has returned without error, the published
\* file of that path holds the manifest of the last resource of the list
\* that derives it.
C14_LaterResourceWins ==
  /\ (pc = "stage_res" /\ Collides(resp[i], j + 1)) =>
       LET item == resp[i]
           r == item.Resources[j + 1]
           path == ResourceFilePath(TempAppDir(item), r, j)
           w == WriteResourceToFile(fs, TempAppDir(item), r, j, "none")
       IN /\ w.err = NoErr
          /\ IsFile(w.fs, path)
          /\ w.fs[path].data = YamlMarshal(r.Manifest)
  /\ (pc = "wm_ret" /\ wmErr = NoErr) =>
       \A k \in 1..Len(resp) : \A n \in 1..Len(resp[k].Resources) :
         (Collides(resp[k], n) /\ LastOfPath(resp[k], n)) =>
           LET r == resp[k].Resources[n]
               path == ResourceFilePath(FinalAppDir(resp[k]), r, n - 1)
           IN IsFile(fs, path) /\ fs[path].data = YamlMarshal(r.Manifest)

\* writeManifests has returned without error for a target with two
\* resources of one path and different manifests
C14_Witness ==
  /\ pc = "wm_ret"
  /\ wmErr = NoErr
  /\ \E k \in 1..Len(resp) :
       /\ Len(resp[k].Resources) = 2
       /\ Collides(resp[k], 2)
       /\ YamlMarshal(resp[k].Resources[1].Manifest)
            # YamlMarshal(resp[k].Resources[2].Manifest)

\* the regular files below a directory
FilePathsUnder(f, d) == {q \in DOMAIN f : IsPrefix(d, q) /\ q # d /\ IsFile(f, q)}

\* the file paths the resources of an item derive below a directory
DerivedPaths(item, d) ==
  {ResourceFilePath(d, item.Resources[n], n - 1) : n \in 1..Len(item.Resources)}

\* C15: once writeManifests has returned without error, the final directory
\* of every target of the response exists and the regular files below it
\* are exactly the files derived from the resources of that target (none at
\* all for an empty resource list): nothing of an older rendering is left.
C15_ExactlyDerivedFiles ==
  (pc = "wm_ret" /\ wmErr = NoErr) =>
    \A k \in 1..Len(resp) :
      /\ IsDir(fs, FinalAppDir(resp[k]))
      /\ FilePathsUnder(fs, FinalAppDir(resp[k]))
           = DerivedPaths(resp[k], FinalAppDir(resp[k]))

\* C16: when the rename of a move of the publish phase fails although
\* source and destination are in order (the two are on different volumes)
\* and every other system call works, the move falls back to copying and
\* returns no error, and the destination holds the staged content.
C16_RenameFallback ==
  lastMove.renameFailed => (~lastMove.failed /\ lastMove.placed)

\* C17: every HTTP request of the step goes to the render endpoint that the
\* step configuration supplies.
C17_ConfiguredEndpoint ==
  \A k \in 1..Len(httpCalls) : httpCalls[k].url = cfg.Environment

\* whether a request carries a header
HasHeader(req, h) == \E n \in 1..Len(req.headers) : req.headers[n] = h

\* C18: every request sent to the render service is a POST with
\* Content-Type and Accept application/json and carries every custom header
\* of the step configuration.
C18_MethodAndHeaders ==
  \A k \in 1..Len(httpCalls) :
    /\ httpCalls[k].method = "POST"
    /\ HasHeader(httpCalls[k], [name |-> "Content-Type", value |-> "application/json"])
    /\ HasHeader(httpCalls[k], [name |-> "Accept", value |-> "application/json"])
    /\ \A n \in 1..Len(cfg.Headers) : HasHeader(httpCalls[k], cfg.Headers[n])

\* C19: a step invocation with a valid configuration sends exactly one HTTP
\* request: never more than one, and one once the request has been made,
\* whether it failed or succeeded.
C19_ExactlyOneRequest ==
  /\ Len(httpCalls) <= 1
  /\ (cfg.valid /\ cfg.convertible /\ pc \notin {"Run", "run", "http"})
       => Len(httpCalls) = 1

\* whether a request body carries the values of the configuration
CarriesConfig(body) ==
  /\ body.RepoURL = cfg.RepoURL
  /\ body.Commit = cfg.Commit
  /\ Len(body.Deployments) = Len(cfg.Deployments)
  /\ \A n \in 1..Len(cfg.Deployments) :
       /\ body.Deployments[n].ClusterID = cfg.Deployments[n].ClusterID
       /\ body.Deployments[n].AppName = cfg.Deployments[n].AppName

\* C20: in revision A, the revision the claim is about (the payload of
\* revision B has other fields: gitRef, apps, repositoryName), the payload
\* that run has built and the body of every request sent carry the
\* configured repoURL and commit unchanged and as many deployments as the
\* configuration, each with the clusterId and appName of the configured
\* entry at its position.
C20_BodyCarriesConfig ==
  rev = "A" =>
    /\ pc \notin {"Run", "run"} /\ cfg.valid /\ cfg.convertible => CarriesConfig(request)
    /\ \A k \in 1..Len(httpCalls) : CarriesConfig(httpCalls[k].body)

\* a request of revision A has been sent for a configuration with two
\* different deployments
C20_Witness ==
  /\ rev = "A"
  /\ Len(httpCalls) = 1
  /\ Len(cfg.Deployments) = 2
  /\ cfg.Deployments[1] # cfg.Deployments[2]
  /\ CarriesConfig(httpCalls[1].body)

\* C21 (revision A): a 2xx answer whose body exceeds the cap makes the step
\* return Errored with "error reading response body", which is not the
\* error of a malformed body with the same status; no staging directory has
\* been created and no file written.
C21_BodyOverCap ==
  (/\ rev = "A"
   /\ pc = "done"
   /\ answer.body = "toolarge") =>
    /\ result.status = Errored
    /\ ErrContains(result.err, "error reading response body")
    /\ ~ErrContains(result.err, "error unmarshaling response")
    /\ result.err # Wrap("error making HTTP request to airnity server",
                         HTTPError(answer.status, "malformed"))
    /\ tempDir = <<>>
    /\ touched = {}
    /\ fs = fs0

\* revision A has returned after a 2xx answer with a body over the cap
C21_Witness ==
  /\ rev = "A"
  /\ pc = "done"
  /\ answer.body = "toolarge"
  /\ answer.status = 200
  /\ Len(httpCalls) = 1

\* the last answer of the render service makes makeHTTPRequest fail
AnswerFails ==
  \/ answer.status = 0
  \/ answer.status > 0 /\ (answer.status < 200 \/ answer.status >= 300)
  \/ answer.body \in {"malformed", "toolarge"}

\* C22: when the step has returned, its status is Succeeded or Errored,
\* Succeeded exactly when the error is nil; a failed validation, a failed
\* conversion, a failed HTTP call, a failed outPath join and a failed
\* writeManifests each give Errored, and Succeeded comes only after a
\* request that was answered well and a writeManifests without error.
C22_StatusMatchesError ==
  pc = "done" =>
    /\ result.status \in {Succeeded, Errored}
    /\ result.status = Succeeded <=> result.err = NoErr
    /\ (~cfg.valid \/ ~cfg.convertible \/ AnswerFails \/ wmErr # NoErr)
         => result.status = Errored
    /\ ErrContains(result.err, "could not secure join outPath")
         => result.status = Errored
    /\ result.status = Succeeded =>
         (cfg.valid /\ cfg.convertible /\ httpCalls # <<>> /\ ~AnswerFails /\ wmErr = NoErr)

\* the step has returned after writeManifests failed
C22_Witness ==
  /\ pc = "done"
  /\ wmErr # NoErr
  /\ result.status = Errored
  /\ ErrContains(result.err, "error writing manifests")

\* the files, with their data, that a complete publish of an item puts
\* below a directory: one per derived path, holding the manifest of the
\* last resource that derives it
NewFiles(item, d) ==
  {<<ResourceFilePath(d, item.Resources[n], n - 1), YamlMarshal(item.Resources[n].Manifest)>> :
     n \in {m \in 1..Len(item.Resources) : LastOfPath(item, m)}}

\* C23: from the first publish step on, also after a failed move, the final
\* directory of every target is either what it was when writeManifests was
\* called (all of it) or a directory holding exactly the new files: never
\* missing, emptied or a mixture.
C23_AtomicPerTarget ==
  published =>
    \A k \in 1..Len(resp) :
      LET d == FinalAppDir(resp[k]) IN
      \/ Subtree(fs, d) = Subtree(fsCall, d)
      \/ IsDir(fs, d) /\ FilesUnder(fs, d) = NewFiles(resp[k], d)

\* the publish loop has been entered
InPublish == published \/ pc \in {"pub_dir", "pub_stat", "pub_move", "pub_read", "pub_file"}

\* every resource of every target has its staged file
AllStaged ==
  \A k \in 1..Len(resp) : \A n \in 1..Len(resp[k].Resources) :
    IsFile(fs, ResourceFilePath(TempAppDir(resp[k]), resp[k].Resources[n], n - 1))

\* C24 (revision A): nothing in the filesystem is touched before the
\* response has been received and parsed; the publish loop is entered with
\* every resource of every target staged and no error; and before that no
\* path at or below the final directory of a target has been created,
\* written, replaced or removed.
C24_PhasesOrdered ==
  rev = "A" =>
    /\ parsed = 0 => (touched = {} /\ fs = fs0)
    /\ (pc = "pub_dir" /\ i = 1 /\ ~published) => (AllStaged /\ wmErr = NoErr)
    /\ ~InPublish =>
         \A q \in touched : \A k \in 1..Len(resp) : ~IsPrefix(FinalAppDir(resp[k]), q)

\* an error names a target: its message formats the appName and the
\* clusterId, or a directory whose last two segments are the two
NamesTarget(err, item) ==
  \/ err.app = item.AppName /\ err.cluster = item.ClusterID
  \/ /\ Len(err.dir) >= 2
     /\ err.dir[Len(err.dir) - 1] = item.ClusterID
     /\ err.dir[Len(err.dir)] = item.AppName

\* C25: when the publish of the target at position i has failed and
\* writeManifests returns, its error names that target, every target
\* before it holds its new files, and the final directory of every target
\* after it is what it was when writeManifests was called.
C25_PublishFailureAtK ==
  (pc = "wm_ret" /\ published /\ wmErr # NoErr) =>
    /\ NamesTarget(wmErr, resp[i])
    /\ \A m \in 1..(i - 1) :
         NewFiles(resp[m], FinalAppDir(resp[m])) \subseteq FilesUnder(fs, FinalAppDir(resp[m]))
    /\ \A m \in (i + 1)..Len(resp) :
         Subtree(fs, FinalAppDir(resp[m])) = Subtree(fsCall, FinalAppDir(resp[m]))

\* the staging path of resource n (1-based) of item k
StagedPath(k, n) ==
  ResourceFilePath(TempAppDir(resp[k]), resp[k].Resources[n], n - 1)

\* the resources that come before resource j (0-based) of item i in the
\* order of the staging loop, as pairs of 1-based positions
StagedBefore ==
  UNION {{<<k, n>> : n \in {m \in 1..Len(resp[k].Resources) : k < i \/ m - 1 < j}} :
           k \in 1..i}

\* C26: when staging has failed at resource j of target i (seen before the
\* deferred cleanup), the error carries j and the appName and clusterId of
\* the target, every resource before it in the order of the loop has its
\* staged file, and every file that is new or changed since the call is
\* the staged file of one of those: nothing after it was written.
C26_StagingFailureAtIndex ==
  (pc = "cleanup" /\ ErrContains(wmErr, "error writing resource")) =>
    /\ wmErr.index = j
    /\ wmErr.app = resp[i].AppName
    /\ wmErr.cluster = resp[i].ClusterID
    /\ ~published
    /\ \A p \in StagedBefore : IsFile(fs, StagedPath(p[1], p[2]))
    /\ \A q \in Changed(fsCall, fs) :
         IsFile(fs, q) => \E p \in StagedBefore : q = StagedPath(p[1], p[2])

\* staging has failed at the second resource of the first of two targets
C26_Witness ==
  /\ pc = "cleanup"
  /\ ErrContains(wmErr, "error writing resource")
  /\ i = 1
  /\ j = 1
  /\ Len(resp) = 2
  /\ Len(resp[2].Resources) >= 1

\* the path derived for resource n (1-based) of an item has nested segments
Nested(item, n) == Len(SplitPath(RelativePath(item.Resources[n], n - 1))) > 1

\* C27: a resource whose derived path has nested segments is staged
\* without error when no system call fails, its file then lying in the
\* staging directory of its target below the parent directories of the
\* path; and once writeManifests has returned without error its file is
\* below the final directory of its target.
C27_NestedPathStaged ==
  /\ (pc = "stage_res" /\ Nested(resp[i], j + 1)) =>
       LET item == resp[i]
           r == item.Resources[j + 1]
           w == WriteResourceToFile(fs, TempAppDir(item), r, j, "none")
       IN /\ w.err = NoErr
          /\ IsFile(w.fs, ResourceFilePath(TempAppDir(item), r, j))
  /\ (pc = "wm_ret" /\ wmErr = NoErr) =>
       \A k \in 1..Len(resp) : \A n \in 1..Len(resp[k].Resources) :
         Nested(resp[k], n) =>
           IsFile(fs, ResourceFilePath(FinalAppDir(resp[k]), resp[k].Resources[n], n - 1))

\* C28: whatever the group, kind, name and namespace of a resource, also
\* with "..", "." and "/" in them, the path writeResourceToFile derives
\* lies strictly inside the staging directory of the resource's target, and
\* everything the call creates or writes lies there: nothing in the
\* staging directory of the other target, nothing outside the staging
\* directory; without a fault in revision B, and in revision A when the
\* parent directory exists, the file is written.
C28_WriteInsideOwnStagingDir ==
  LET appDir == TempAppDir(resp[1])
      filePath == ResourceFilePath(appDir, fnIn.resource, j)
  IN /\ pc \in {"wr", "wr_done"} => (IsPrefix(appDir, filePath) /\ filePath # appDir)
     /\ pc = "wr_done" =>
          /\ \A q \in touched :
               /\ IsPrefix(appDir, q) /\ q # appDir
               /\ ~IsPrefix(TempAppDir(resp[2]), q)
               /\ IsPrefix(tempDir, q)
          /\ wmErr = NoErr => (IsFile(fs, filePath) /\ filePath \in touched)
          /\ \A q \in DOMAIN fs : IsFile(fs, q) => q = filePath

\* a resource whose derived path would leave the staging directory of its
\* target under a lexical join has been written
C28_Witness ==
  /\ pc = "wr_done"
  /\ wmErr = NoErr
  /\ ~IsPrefix(TempAppDir(resp[1]),
               FilepathJoin(TempAppDir(resp[1]), RelativePath(fnIn.resource, j)))
  /\ IsFile(fs, ResourceFilePath(TempAppDir(resp[1]), fnIn.resource, j))

\* C29: whatever the clusterId and appName of the items, also when both are
\* empty, an output root that was there when writeManifests was called is
\* still there at every later step, and every regular file of that moment
\* that lies outside the final directories of the targets of the response
\* is still there with its data.
C29_OutputRootKept ==
  /\ IsDir(fsCall, outDir) => IsDir(fs, outDir)
  /\ \A q \in DOMAIN fsCall :
       (IsFile(fsCall, q) /\ \A k \in 1..Len(resp) : ~IsPrefix(FinalAppDir(resp[k]), q))
         => (IsFile(fs, q) /\ fs[q] = fsCall[q])

\* two items of the response name the same target
SameTarget(a, b) ==
  resp[a].ClusterID = resp[b].ClusterID /\ resp[a].AppName = resp[b].AppName

\* item k of the response has been published by the current writeManifests
Published(k) ==
  /\ published
  /\ \/ pc \in {"pub_dir", "pub_stat", "pub_move", "pub_read", "pub_file"} /\ k < i
     \/ pc \in {"cleanup", "wm_ret"} /\ (wmErr = NoErr \/ k < i)

\* C30: when a target is listed again later in the response, the files of
\* an entry that has been published stay in the final directory of the
\* target while the later entry is published and after it, and the move of
\* the later entry returns no error when no system call fails.
C30_RepeatedTarget ==
  \A a \in 1..Len(resp) : \A b \in (a + 1)..Len(resp) :
    SameTarget(a, b) =>
      /\ Published(a) =>
           \A n \in 1..Len(resp[a].Resources) :
             IsFile(fs, ResourceFilePath(FinalAppDir(resp[a]), resp[a].Resources[n], n - 1))
      /\ (rev = "B" /\ pc = "pub_move" /\ i = b) =>
           simpleAtomicMove(fs, TempAppDir(resp[b]), FinalAppDir(resp[b]), "none").err = NoErr
      /\ (rev = "A" /\ pc = "pub_read" /\ i = b) => IsDir(fs, TempAppDir(resp[b]))

\* a string is one path segment: not empty, no separator
SingleSegment(str) == str # <<>> /\ \A k \in 1..Len(str) : str[k] # Slash

\* a path of the tree lies in the directory <outDir>/<clusterId>/<appName>
\* of a target that the response does not list
OfUnlistedTarget(q) ==
  /\ IsPrefix(outDir, q)
  /\ Len(q) >= Len(outDir) + 2
  /\ \A k \in 1..Len(resp) :
       ~(q[Len(outDir) + 1] = resp[k].ClusterID /\ q[Len(outDir) + 2] = resp[k].AppName)

\* C31: when every clusterId and appName of the response is a non-empty
\* single path segment, every file and directory that was in the directory
\* of an unlisted target when writeManifests was called is still there,
\* unchanged, at every later step, whether writeManifests fails or not.
C31_UnlistedTargetsUnchanged ==
  (/\ outDir # <<>>
   /\ \A k \in 1..Len(resp) :
        SingleSegment(resp[k].ClusterID) /\ SingleSegment(resp[k].AppName)) =>
    \A q \in DOMAIN fsCall :
      OfUnlistedTarget(q) => (q \in DOMAIN fs /\ fs[q] = fsCall[q])

(* ---------------------- writeManifests called twice -------------------- *)
\* SpecTwice calls writeManifests of either revision on a response and an
\* output root, and after a call that returned nil calls it once more with
\* the same arguments; every I/O step of either call may still fail
InitTwice ==
  /\ rev \in {"A", "B"}
  /\ cfg \in ValidConfigs
  /\ render \in Responses
  /\ fs0 \in Trees(cfg.OutPath)
  /\ fs = fs0
  /\ pc = "wm_base"
  /\ env = 0
  /\ request = <<>>
  /\ resp = render
  /\ outDir = OutDirOf(WorkDir, cfg.OutPath)
  /\ tempDir = <<>>
  /\ i = 0
  /\ j = 0
  /\ entries = <<>>
  /\ wmErr = NoErr
  /\ result = NoResult
  /\ fsCall = fs0
  /\ touched = {}
  /\ httpCalls = <<>>
  /\ answer = NoAnswer
  /\ parsed = 0
  /\ published = FALSE
  /\ lastMove = NoMove
  /\ fsOnce = <<>>
  /\ ioFailed = FALSE
  /\ other = NoOther
  /\ fnIn = NoFn
  /\ fnOut = <<>>

\* the second call of writeManifests, with the arguments of the first
CallAgain ==
  /\ pc = "wm_ret"
  /\ wmErr = NoErr
  /\ fsOnce = <<>>
  /\ fsOnce' = <<fs>>
  /\ fsCall' = fs
  /\ published' = FALSE
  /\ tempDir' = <<>>
  /\ pc' = "wm_base"
  /\ UNCHANGED <<inputVars, fs, env, request, resp, outDir, i, j, entries, wmErr,
                 result, touched, httpCalls, answer, parsed, lastMove, fnIn, fnOut, ioFailed, other>>

NextTwice ==
  \/ EnsureBaseDir
  \/ MakeTempDir
  \/ StageItemDir
  \/ StageResource
  \/ EnsureFinalDir
  \/ RemoveExistingAppDir
  \/ MoveAppDir
  \/ ReadStagedDir
  \/ MoveManifestFile
  \/ Cleanup
  \/ CallAgain

SpecTwice == InitTwice /\ [][NextTwice]_vars

\* the second call has returned nil and no I/O step of either call failed
TwiceDone == pc = "wm_ret" /\ wmErr = NoErr /\ fsOnce # <<>> /\ ~ioFailed

\* C32: when writeManifests is called twice in a row with the same response
\* on the same output root and no I/O step of either call fails, the second
\* call leaves the tree exactly as the first call left it, and no staging
\* directory remains after either call
C32_Idempotent ==
  /\ (pc = "wm_ret" /\ wmErr = NoErr /\ ~ioFailed) => NoStagingDir(fs, outDir)
  /\ TwiceDone => fs = fsOnce[1]

(* ------------------- two invocations of writeManifests ----------------- *)
\* SpecConc runs two invocations of writeManifests of one revision on one
\* output root, any step of one between any two steps of the other. The
\* variables pc, resp, tempDir, i, j, entries and wmErr are those of the
\* invocation that takes the next step, `other` holds those of the
\* invocation that waits, and Switch exchanges the two. The filesystem is
\* shared and no system call is made to fail.

\* the responses of the two invocations: the common target a/b with one or
\* two of the resources whose name is one path segment or empty
ConcResources == {r \in ResourceSet : \A k \in 1..Len(r.Name) : r.Name[k] # Slash}
ConcResponses ==
  {<<Item(<<<<"a">>, <<"b">>>>, rs)>> :
     rs \in DistinctSeqsUpTo(ConcResources, 2) \ {<<>>}}

Invocation(n, items) ==
  [id |-> n, pc |-> "wm_base", resp |-> items, tempDir |-> <<>>, i |-> 0, j |-> 0,
   entries |-> <<>>, wmErr |-> NoErr]

InitConc ==
  /\ rev \in {"A", "B"}
  /\ cfg \in {c \in ValidConfigs : c.OutPath = <<>>}
  /\ render \in ConcResponses
  /\ fs0 \in Trees(cfg.OutPath)
  /\ fs = fs0
  /\ pc = "wm_base"
  /\ env = 0
  /\ request = <<>>
  /\ resp = render
  /\ outDir = OutDirOf(WorkDir, cfg.OutPath)
  /\ tempDir = <<>>
  /\ i = 0
  /\ j = 0
  /\ entries = <<>>
  /\ wmErr = NoErr
  /\ result = NoResult
  /\ fsCall = fs0
  /\ touched = {}
  /\ httpCalls = <<>>
  /\ answer = NoAnswer
  /\ parsed = 0
  /\ published = FALSE
  /\ lastMove = NoMove
  /\ fsOnce = <<>>
  /\ ioFailed = FALSE
  /\ other \in {Invocation(2, items) : items \in ConcResponses}
  /\ fnIn = NoFn
  /\ fnOut = <<>>

\* the scheduler takes the invocation that waits and has not returned
Switch ==
  /\ other.id # 0
  /\ other.pc # "wm_ret"
  /\ pc' = other.pc
  /\ resp' = other.resp
  /\ tempDir' = other.tempDir
  /\ i' = other.i
  /\ j' = other.j
  /\ entries' = other.entries
  /\ wmErr' = other.wmErr
  /\ other' = [id |-> 3 - other.id, pc |-> pc, resp |-> resp, tempDir |-> tempDir,
               i |-> i, j |-> j, entries |-> entries, wmErr |-> wmErr]
  /\ UNCHANGED <<inputVars, fs, env, request, outDir, result, fsCall, touched,
                 httpCalls, answer, parsed, published, lastMove, fnIn, fnOut, fsOnce,
                 ioFailed>>

\* revision B, simpleAtomicMove one system call at a time: the os.Rename
MoveAppDirRename ==
  /\ pc = "pub_move"
  /\ rev = "B"
  /\ LET item == resp[i]
         e == RenameErr(fs, TempAppDir(item), FinalAppDir(item)) IN
     IF e = "nil"
     THEN /\ Effect(Rename(fs, TempAppDir(item), FinalAppDir(item)))
          /\ Goto(PublishNext(i))
          /\ UNCHANGED wmErr
     ELSE IF e # "exist"
     THEN /\ Fail(WithTarget(Wrap("error moving app directory", NewErr("failed to move")),
                             item))
          /\ UNCHANGED <<fs, touched>>
     ELSE /\ pc' = "move_remove"
          /\ UNCHANGED <<fs, touched, i, j, wmErr>>
  /\ UNCHANGED <<inputVars, env, request, resp, outDir, tempDir, entries, result,
                 fsCall, httpCalls, answer, parsed, published, lastMove, fnVars>>

\* the os.RemoveAll of the destination after a rename that found it in place
MoveAppDirRemove ==
  /\ pc = "move_remove"
  /\ Effect(RemoveAll(fs, FinalAppDir(resp[i])))
  /\ pc' = "move_again"
  /\ UNCHANGED <<inputVars, env, request, resp, outDir, tempDir, i, j, entries, wmErr,
                 result, fsCall, httpCalls, answer, parsed, published, lastMove, fnVars>>

\* the second os.Rename
MoveAppDirAgain ==
  /\ pc = "move_again"
  /\ LET item == resp[i] IN
     IF RenameErr(fs, TempAppDir(item), FinalAppDir(item)) = "nil"
     THEN /\ Effect(Rename(fs, TempAppDir(item), FinalAppDir(item)))
          /\ Goto(PublishNext(i))
          /\ UNCHANGED wmErr
     ELSE /\ Fail(WithTarget(Wrap("error moving app directory",
                                  NewErr("failed to move after removing existing")), item))
          /\ UNCHANGED <<fs, touched>>
  /\ UNCHANGED <<inputVars, env, request, resp, outDir, tempDir, entries, result,
                 fsCall, httpCalls, answer, parsed, published, lastMove, fnVars>>

NextConc ==
  \/ EnsureBaseDir
  \/ MakeTempDir
  \/ StageItemDir
  \/ StageResource
  \/ EnsureFinalDir
  \/ RemoveExistingAppDir
  \/ MoveAppDirRename
  \/ MoveAppDirRemove
  \/ MoveAppDirAgain
  \/ ReadStagedDir
  \/ MoveManifestFile
  \/ Cleanup
  \/ Switch

SpecConc == InitConc /\ [][NextConc]_vars

\* both invocations have returned
BothReturned == other.id # 0 /\ pc = "wm_ret" /\ other.pc = "wm_ret"

\* the complete output of an invocation for the common target: the files
\* its response derives in the final directory, with their contents
OutputOf(items) == NewFiles(items[1], FinalAppDir(items[1]))

\* C33: when two invocations of writeManifests run side by side on one output
\* root with a common target and no I/O step fails, then once both have
\* returned no staging directory is left, both have returned nil, and the
\* files of the final directory of the common target are the complete output
\* of one of the two invocations, not files of both.
C33_ConcurrentSameTarget ==
  BothReturned =>
    /\ NoStagingDir(fs, outDir)
    /\ wmErr = NoErr /\ other.wmErr = NoErr
    /\ FilesUnder(fs, FinalAppDir(resp[1])) \in {OutputOf(resp), OutputOf(other.resp)}

(* ----------------------------- termination ----------------------------- *)
\* the responses of SpecLive: none, a target without resources, a target
\* that leaves the output root, and two targets with three resources
LiveResponses ==
  { <<>>,
    <<Item(<<<<"a">>, <<"b">>>>, <<>>)>>,
    <<Item(<<DotDot, <<"b">>>>, <<CHOOSE r \in ResourceSet : r.Name = <<"n">>>>)>>,
    IndexedResponse }

InitLive ==
  /\ rev \in {"A", "B"}
  /\ cfg \in ValidConfigs \cup BadConfigs
  /\ render \in LiveResponses
  /\ fs0 \in Trees(cfg.OutPath)
  /\ (cfg \in BadConfigs => render = <<>> /\ fs0 = FreshTree)
  /\ fs = fs0
  /\ pc = "Run"
  /\ env = 0
  /\ request = <<>>
  /\ resp = <<>>
  /\ outDir = <<>>
  /\ tempDir = <<>>
  /\ i = 0
  /\ j = 0
  /\ entries = <<>>
  /\ wmErr = NoErr
  /\ result = NoResult
  /\ fsCall = fs0
  /\ touched = {}
  /\ httpCalls = <<>>
  /\ answer = NoAnswer
  /\ parsed = 0
  /\ published = FALSE
  /\ lastMove = NoMove
  /\ fsOnce = <<>>
  /\ ioFailed = FALSE
  /\ other = NoOther
  /\ fnIn = NoFn
  /\ fnOut = <<>>

\* the step runs in one goroutine and every call it makes returns (the HTTP
\* call with an answer, a transport error or the timeout of the client), so
\* a step that can be taken is taken
SpecLive == InitLive /\ [][Next]_vars /\ WF_vars(Next)

\* run has returned a result
Returned == pc = "done"

\* the deferred removal of the staging directory has run: a staging
\* directory that was made is not there
CleanupDone == tempDir # <<>> => ~Exists(fs, tempDir)

====
